---- MODULE Spec2Model ----
(***************************************************************************)
(* dnsleaktest-tui: the start-up pipeline of main (DNS-leak probe, then    *)
(* traceroute, then the terminal loop) as one sequential state machine.    *)
(* Every step that talks to a collaborator (HTTP agent, resolver, tracer,  *)
(* terminal) is one action whose outcome is chosen by the environment.     *)
(***************************************************************************)
EXTENDS Integers, Sequences, FiniteSets, TLC

(* ---------------------------------------------------------------- bounds *)
\* longest verdict (rows) the leak service answers with
MaxRows == 2
\* most TTLs in a tracer snapshot
MaxHops == 2

(* ------------------------------------------------------- Option / Result *)
\* Rust's Option<T>: None is the empty sequence, Some(x) the one-element one
None == <<>>
Some(x) == <<x>>

Running == [status |-> "running", msg |-> ""]
Ok == [status |-> "ok", msg |-> ""]
Err(m) == [status |-> "err", msg |-> m]
Panic(m) == [status |-> "panic", msg |-> m]

(* ----------------------------------------------------- program constants *)
API_URL == "bash.ws"
\* for i in 0..10
FanOutAttempts == 10
\* main: traceroute("discord.com")
Hostname == "discord.com"

(* ------------------------------------------------------ environment sets *)
\* the session id the service hands out (GET /id)
Ids == {"k3v9"}
\* what a failing HTTP exchange reports
TransportErr == "ureq: transport error"
DecodeErr == "ureq: malformed body"

\* country_emoji::flag: the codes with a flag glyph (written as ASCII
\* stand-ins for the regional-indicator pairs); any other code, the empty
\* one included, has none
flag(country) ==
    CASE country = "US" -> Some("[flag-US]")
      [] country = "DE" -> Some("[flag-DE]")
      [] OTHER -> None

\* rows the service may put in a verdict, as deserialised into DnsData
RawRows ==
    { [ip |-> "1.2.3.4", country |-> "ZZ", country_name |-> "Nowhere",
       asn |-> "AS64500", type_field |-> "ip"],
      [ip |-> "8.8.8.8", country |-> "US", country_name |-> "United States",
       asn |-> "AS15169", type_field |-> "dns"],
      [ip |-> "No DNS leak detected", country |-> "", country_name |-> "",
       asn |-> "", type_field |-> "conclusion"] }

SeqsUpTo(S, n) == UNION { [1..k -> S] : k \in 0..n }

RawData == SeqsUpTo(RawRows, MaxRows)

VARIABLES
    pc,          \* position of the single thread of main
    exit,        \* how the process ended (Running while it has not)
    requests,    \* every HTTP request the agent has issued, in order
    id,          \* test_dns_leak: Option of the session id
    i,           \* test_dns_leak: next fan-out index
    fanout_errs, \* whether some fan-out call returned Err (the code drops it)
    verdict,     \* Option of the rows as the service sent them
    dns_data,    \* main: Option of the Vec<DnsData> test_dns_leak returned
    addrs,       \* traceroute: Option of the resolver's answer
    addr,        \* traceroute: Option of the selected target address
    warned,      \* whether the multiple-addresses warning was printed
    tracer,      \* traceroute: Option of the built tracer's configuration
    tracer_runs, \* how often tracer.run() was called
    snapshot,    \* traceroute: Option of the tracer's final snapshot
    hop_idx,     \* traceroute: next snapshot hop of the reconcile loop
    hops,        \* traceroute: the Vec<Hop> built so far
    rlookups,    \* how many reverse lookups the resolver was asked for
    trace_data,  \* main: Option of the TraceData traceroute returned
    app,         \* run_tui: Option of the App (is_running, selection)
    terminal,    \* the terminal display: "cooked" (as found) or "raw"
    event        \* run_tui: Option of the event read in this turn of the loop

leakVars == <<requests, id, i, fanout_errs, verdict, dns_data>>
traceVars == <<addrs, addr, warned, tracer, tracer_runs, snapshot, hop_idx,
               hops, rlookups, trace_data>>
tuiVars == <<app, terminal, event>>
vars == <<pc, exit, leakVars, traceVars, tuiVars>>

(* ------------------------------------------------------------ leak probe *)
IdUrl == "https://" \o API_URL \o "/id"
FanOutUrl(n, sid) == "https://" \o ToString(n) \o "." \o sid \o "." \o API_URL
VerdictUrl(sid) == "https://" \o API_URL \o "/dnsleak/test/" \o sid \o "?json"

\* a variant that leaves rows without a country code as they came
EnrichRowSkipEmpty(r) ==
    IF r.country = "" THEN r
    ELSE [r EXCEPT !.country_name =
            r.country_name \o " " \o
            (IF flag(r.country) = None THEN "?" ELSE flag(r.country)[1])]

\* the closure of data.iter_mut().for_each: country_name is overwritten
EnrichRow(r) ==
    [r EXCEPT !.country_name =
        r.country_name \o " " \o
        (IF flag(r.country) = None THEN "?" ELSE flag(r.country)[1])]

Enrich(data) == [n \in 1..Len(data) |-> EnrichRow(data[n])]

Fail(m) ==
    /\ exit' = Err(m)
    /\ pc' = "done"

Init ==
    /\ pc = "dns_id"
    /\ exit = Running
    /\ requests = <<>>
    /\ id = None
    /\ i = 0
    /\ fanout_errs = FALSE
    /\ verdict = None
    /\ dns_data = None
    /\ addrs = None
    /\ addr = None
    /\ warned = FALSE
    /\ tracer = None
    /\ tracer_runs = 0
    /\ snapshot = None
    /\ hop_idx = 1
    /\ hops = <<>>
    /\ rlookups = 0
    /\ trace_data = None
    /\ app = None
    /\ terminal = "cooked"
    /\ event = None

\* agent.get(".../id").call()?.into_string()?
GetId ==
    /\ pc = "dns_id"
    /\ requests' = Append(requests, IdUrl)
    /\ \/ /\ Fail(TransportErr)
          /\ UNCHANGED <<id, i>>
       \/ /\ Fail(DecodeErr)
          /\ UNCHANGED <<id, i>>
       \/ \E sid \in Ids :
            /\ id' = Some(sid)
            /\ i' = 0
            /\ pc' = "dns_fanout"
            /\ UNCHANGED exit
    /\ UNCHANGED <<fanout_errs, verdict, dns_data, traceVars, tuiVars>>

\* a variant whose fan-out call propagates its error (call()? in the loop)
FanOutAborting ==
    /\ pc = "dns_fanout"
    /\ i < FanOutAttempts
    /\ requests' = Append(requests, FanOutUrl(i, id[1]))
    /\ \/ /\ fanout_errs' = TRUE
          /\ Fail(TransportErr)
          /\ UNCHANGED i
       \/ /\ i' = i + 1
          /\ UNCHANGED <<pc, exit, fanout_errs>>
    /\ UNCHANGED <<id, verdict, dns_data, traceVars, tuiVars>>

\* one turn of the fan-out loop: let _ = agent.get(...).call();
FanOut ==
    /\ pc = "dns_fanout"
    /\ i < FanOutAttempts
    /\ requests' = Append(requests, FanOutUrl(i, id[1]))
    /\ \E ok \in BOOLEAN : fanout_errs' = (fanout_errs \/ ~ok)
    /\ i' = i + 1
    /\ UNCHANGED <<pc, exit, id, verdict, dns_data, traceVars, tuiVars>>

\* a variant of main that opens the terminal loop before the traceroute
AfterLeakProbeTuiFirst == "tui_init"

\* where main goes on once test_dns_leak has returned Ok
AfterLeakProbe == "tr_resolve"

\* a variant that asks for the verdict again when the request fails
GetVerdictRetrying ==
    /\ pc = "dns_fanout"
    /\ i >= FanOutAttempts
    /\ requests' = Append(requests, VerdictUrl(id[1]))
    /\ \/ UNCHANGED <<pc, exit, verdict, dns_data>>
       \/ /\ Fail(DecodeErr)
          /\ UNCHANGED <<verdict, dns_data>>
       \/ \E data \in RawData :
            /\ verdict' = Some(data)
            /\ dns_data' = Some(Enrich(data))
            /\ pc' = AfterLeakProbe
            /\ UNCHANGED exit
    /\ UNCHANGED <<id, i, fanout_errs, traceVars, tuiVars>>

\* the verdict request, its decoding, the enrichment and the return to main
GetVerdict ==
    /\ pc = "dns_fanout"
    /\ i >= FanOutAttempts
    /\ requests' = Append(requests, VerdictUrl(id[1]))
    /\ \/ /\ Fail(TransportErr)
          /\ UNCHANGED <<verdict, dns_data>>
       \/ /\ Fail(DecodeErr)
          /\ UNCHANGED <<verdict, dns_data>>
       \/ \E data \in RawData :
            /\ verdict' = Some(data)
            /\ dns_data' = Some(Enrich(data))
            /\ pc' = AfterLeakProbe
            /\ UNCHANGED exit
    /\ UNCHANGED <<id, i, fanout_errs, traceVars, tuiVars>>

(* ------------------------------------------------------------ traceroute *)
port == 33434
first_ttl == 1
max_ttl == 64
nqueries == 3
tos == 0
pausemecs == 100
packet_size == 52
max_flows == 1

\* IPv4 addresses are their four octets
\* engine-level error strings of a snapshot
EngineErrors == { "socket permission denied" }

\* Ipv4Addr's Display
AddrToString(a) ==
    ToString(a[1]) \o "." \o ToString(a[2]) \o "." \o ToString(a[3]) \o "." \o
    ToString(a[4])

\* format!("{:.3} ms", s.as_secs_f64() * 1000_f64) of a whole-microsecond time
FormatMs(us) ==
    LET frac == us % 1000
        pad == IF frac < 10 THEN "00" ELSE IF frac < 100 THEN "0" ELSE ""
    IN ToString(us \div 1000) \o "." \o pad \o ToString(frac) \o " ms"

\* itertools' join
RECURSIVE Join(_, _)
Join(strs, sep) ==
    IF strs = <<>> THEN ""
    ELSE IF Len(strs) = 1 THEN strs[1]
    ELSE strs[1] \o sep \o Join(Tail(strs), sep)

FormatSamples(samples) ==
    Join([n \in 1..Len(samples) |-> FormatMs(samples[n])], "  ")

\* what resolver.lookup(hostname) may answer with: no address, one, or two
LookupResults ==
    { <<>>,
      << <<162, 159, 128, 233>> >>,
      << <<162, 159, 135, 232>>, <<162, 159, 128, 233>> >> }

\* a variant without the arm for the empty answer
SelectAddrNoEmptyArm(as) ==
    IF Len(as) = 1 THEN [ok |-> TRUE, addr |-> Some(as[1]), warn |-> FALSE]
    ELSE IF Len(as) > 1 THEN [ok |-> TRUE, addr |-> Some(as[1]), warn |-> TRUE]
    ELSE [ok |-> TRUE, addr |-> Some(<<0, 0, 0, 0>>), warn |-> FALSE]

\* a variant that takes the last address of several
SelectAddrLast(as) ==
    IF Len(as) = 0 THEN [ok |-> FALSE, addr |-> None, warn |-> FALSE]
    ELSE IF Len(as) = 1 THEN [ok |-> TRUE, addr |-> Some(as[1]), warn |-> FALSE]
    ELSE [ok |-> TRUE, addr |-> Some(as[Len(as)]), warn |-> TRUE]

\* the match on addrs.as_slice(): the address the trace is aimed at, whether
\* the call goes on, and whether the warning is printed
SelectAddr(as) ==
    IF Len(as) = 0 THEN [ok |-> FALSE, addr |-> None, warn |-> FALSE]
    ELSE IF Len(as) = 1 THEN [ok |-> TRUE, addr |-> Some(as[1]), warn |-> FALSE]
    ELSE [ok |-> TRUE, addr |-> Some(as[1]), warn |-> TRUE]

UnknownHost == "traceroute: unknown host " \o Hostname

\* DnsResolver::start, resolver.lookup and the match on the answer
Resolve ==
    /\ pc = "tr_resolve"
    /\ \/ /\ Fail("resolver: start failed")
          /\ UNCHANGED <<addrs, addr, warned>>
       \/ /\ Fail(UnknownHost)
          /\ UNCHANGED <<addrs, addr, warned>>
       \/ \E as \in LookupResults :
            /\ addrs' = Some(as)
            /\ IF SelectAddr(as).ok
               THEN /\ addr' = SelectAddr(as).addr
                    /\ warned' = SelectAddr(as).warn
                    /\ pc' = "tr_build"
                    /\ UNCHANGED exit
               ELSE /\ Fail(UnknownHost)
                    /\ UNCHANGED <<addr, warned>>
    /\ UNCHANGED <<leakVars, tracer, tracer_runs, snapshot, hop_idx, hops,
                   rlookups, trace_data, tuiVars>>

\* a variant that keeps traceroute(8)'s classic limit of 30 hops
TracerConfigClassic(target) ==
    [ target_addr |-> target,
      interface |-> None,
      source_addr |-> None,
      protocol |-> "Udp",
      port_direction |-> [kind |-> "FixedSrc", port |-> port],
      packet_size |-> packet_size,
      first_ttl |-> first_ttl,
      max_ttl |-> 30,
      tos |-> tos,
      max_flows |-> max_flows,
      max_rounds |-> Some(nqueries),
      min_round_duration_ms |-> pausemecs,
      max_round_duration_ms |-> pausemecs ]

\* the Builder chain
TracerConfig(target) ==
    [ target_addr |-> target,
      interface |-> None,
      source_addr |-> None,
      protocol |-> "Udp",
      port_direction |-> [kind |-> "FixedSrc", port |-> port],
      packet_size |-> packet_size,
      first_ttl |-> first_ttl,
      max_ttl |-> max_ttl,
      tos |-> tos,
      max_flows |-> max_flows,
      max_rounds |-> Some(nqueries),
      min_round_duration_ms |-> pausemecs,
      max_round_duration_ms |-> pausemecs ]

\* Builder::new(addr) ... .build()?
Build ==
    /\ pc = "tr_build"
    /\ \/ /\ Fail("tracer: build failed")
          /\ UNCHANGED tracer
       \/ /\ tracer' = Some(TracerConfig(addr[1]))
          /\ pc' = "tr_run"
          /\ UNCHANGED exit
    /\ UNCHANGED <<leakVars, addrs, addr, warned, tracer_runs, snapshot,
                   hop_idx, hops, rlookups, trace_data, tuiVars>>

\* tracer.run()?
Run ==
    /\ pc = "tr_run"
    /\ tracer_runs' = tracer_runs + 1
    /\ \/ Fail("tracer: run failed")
       \/ /\ pc' = "tr_snapshot"
          /\ UNCHANGED exit
    /\ UNCHANGED <<leakVars, addrs, addr, warned, tracer, snapshot, hop_idx,
                   hops, rlookups, trace_data, tuiVars>>

\* one TTL of a snapshot: silent (no address, no sample), one responder, or
\* two responders in the engine's order
HopShapes ==
    { [addrs |-> <<>>, samples |-> <<>>],
      [addrs |-> << <<10, 0, 0, 1>> >>, samples |-> <<12340, 13001, 900>>],
      [addrs |-> << <<172, 16, 0, 254>>, <<10, 0, 0, 1>> >>,
       samples |-> <<7050>>] }

\* the hops of a snapshot: TTL first_ttl, first_ttl + 1, ... in order
SnapshotHops ==
    { [n \in 1..Len(sh) |->
         [ttl |-> first_ttl + n - 1, addrs |-> sh[n].addrs,
          samples |-> sh[n].samples]] : sh \in SeqsUpTo(HopShapes, MaxHops) }

Snapshots ==
    { [error |-> e, hops |-> h] :
        e \in {None} \cup { Some(m) : m \in EngineErrors }, h \in SnapshotHops }

\* a variant that never looks at the snapshot's error
SnapshotErrorIgnored(snap) == None

\* snapshot.error()
SnapshotError(snap) == snap.error

\* tracer.snapshot() and the check of its error
TakeSnapshot ==
    /\ pc = "tr_snapshot"
    /\ \E snap \in Snapshots :
        /\ snapshot' = Some(snap)
        /\ IF SnapshotError(snap) # None
           THEN /\ Fail("error: " \o SnapshotError(snap)[1])
                /\ UNCHANGED <<hop_idx, hops>>
           ELSE /\ hops' = <<>>
                /\ hop_idx' = 1
                /\ pc' = "tr_reconcile"
                /\ UNCHANGED exit
    /\ UNCHANGED <<leakVars, addrs, addr, warned, tracer, tracer_runs,
                   rlookups, trace_data, tuiVars>>

\* Display of the DnsEntry a reverse lookup answers with
DnsEntryToString(kind, a) ==
    CASE kind = "Resolved" -> "host-" \o AddrToString(a) \o ".example.net"
      [] kind = "NotFound" -> AddrToString(a)
      [] kind = "Timeout" -> "Timeout: " \o AddrToString(a)
      [] kind = "Failed" -> "Failed: " \o AddrToString(a)

ReverseOutcomes == {"Resolved", "NotFound"}

\* a variant that emits a Hop only for the addresses whose reverse lookup
\* found a name
HopRowsSkipMisses(hop, rev) ==
    IF Len(hop.addrs) > 0
    THEN LET found == SelectSeq(hop.addrs, LAMBDA a : rev[a] = "Resolved")
         IN [n \in 1..Len(found) |->
               [ttl |-> IF n - 1 # 0 THEN None ELSE Some(ToString(hop.ttl)),
                host |-> Some(DnsEntryToString("Resolved", found[n])),
                address |-> Some(AddrToString(found[n])),
                samples |-> FormatSamples(hop.samples)]]
    ELSE << [ttl |-> Some(ToString(hop.ttl)), host |-> None, address |-> None,
             samples |-> FormatSamples(hop.samples)] >>

\* a variant that emits nothing for a TTL without responders
HopRowsDropSilent(hop, rev) ==
    [n \in 1..Len(hop.addrs) |->
        [ttl |-> IF n - 1 # 0 THEN None ELSE Some(ToString(hop.ttl)),
         host |-> Some(DnsEntryToString(rev[hop.addrs[n]], hop.addrs[n])),
         address |-> Some(AddrToString(hop.addrs[n])),
         samples |-> FormatSamples(hop.samples)]]

\* the Hops one snapshot hop contributes; rev[a] is what the reverse lookup
\* of address a answers with
HopRows(hop, rev) ==
    LET ttl == hop.ttl
        samples == FormatSamples(hop.samples)
    IN IF Len(hop.addrs) > 0
       THEN [n \in 1..Len(hop.addrs) |->
               [ttl |-> IF n - 1 # 0 THEN None ELSE Some(ToString(ttl)),
                host |-> Some(DnsEntryToString(rev[hop.addrs[n]], hop.addrs[n])),
                address |-> Some(AddrToString(hop.addrs[n])),
                samples |-> samples]]
       ELSE << [ttl |-> Some(ToString(ttl)), host |-> None, address |-> None,
                samples |-> samples] >>

Range(s) == { s[n] : n \in 1..Len(s) }

\* one turn of for hop in snapshot.hops()
ReconcileHop ==
    /\ pc = "tr_reconcile"
    /\ hop_idx <= Len(snapshot[1].hops)
    /\ LET hop == snapshot[1].hops[hop_idx]
       IN /\ \E rev \in [Range(hop.addrs) -> ReverseOutcomes] :
                hops' = hops \o HopRows(hop, rev)
          /\ rlookups' = rlookups + Len(hop.addrs)
    /\ hop_idx' = hop_idx + 1
    /\ UNCHANGED <<pc, exit, leakVars, addrs, addr, warned, tracer,
                   tracer_runs, snapshot, trace_data, tuiVars>>

Summary(hostname, t) ==
    "Traceroute to " \o hostname \o " (" \o AddrToString(t.target_addr) \o
    "), " \o ToString(t.max_ttl) \o " hops max, " \o ToString(t.packet_size) \o
    " byte packets"

\* where main goes on once traceroute has returned Ok
AfterTraceroute == "tui_init"

\* Ok(TraceData { summary, hops }) and the return to main
TraceReturn ==
    /\ pc = "tr_reconcile"
    /\ hop_idx > Len(snapshot[1].hops)
    /\ trace_data' = Some([summary |-> Summary(Hostname, tracer[1]),
                           hops |-> hops])
    /\ pc' = AfterTraceroute
    /\ UNCHANGED <<exit, leakVars, addrs, addr, warned, tracer, tracer_runs,
                   snapshot, hop_idx, hops, rlookups, tuiVars>>

(* --------------------------------------------------------------- run_tui *)
\* usize::MAX, held at the largest 32-bit integer; it is only ever compared
\* with the number of rows
USIZE_MAX == 2147483647

Events == {"q", "Down", "Up", "OtherKey", "Resize"}

\* rows of the leak table: the records whose type is "dns"
DnsRows(data) == SelectSeq(data, LAMBDA r : r.type_field = "dns")

\* App { .. }, app.state.select(Some(0)) and ratatui::init()
TuiInit ==
    /\ pc = "tui_init"
    /\ app' = Some([is_running |-> TRUE, data |-> dns_data[1],
                    selected |-> Some(0)])
    /\ \/ /\ terminal' = "raw"
          /\ pc' = "tui_loop"
          /\ UNCHANGED exit
       \/ /\ exit' = Panic("failed to initialize terminal")
          /\ pc' = "done"
          /\ UNCHANGED terminal
    /\ UNCHANGED <<leakVars, traceVars, event>>

\* the selection after the table was rendered with n rows
RenderSelection(sel, n) ==
    IF n = 0 THEN None
    ELSE IF sel # None /\ sel[1] >= n THEN Some(n - 1)
    ELSE sel

\* while app.is_running { terminal.draw(..)?
Draw ==
    /\ pc = "tui_loop"
    /\ app[1].is_running
    /\ \/ /\ Fail("io: draw failed")
          /\ UNCHANGED app
       \/ /\ app' = Some([app[1] EXCEPT !.selected =
                    RenderSelection(@, Len(DnsRows(app[1].data)))])
          /\ pc' = "tui_event"
          /\ UNCHANGED exit
    /\ event' = None
    /\ UNCHANGED <<leakVars, traceVars, terminal>>

\* TableState::select_next / select_previous
SelectNext(sel) == Some(IF sel = None THEN 0 ELSE sel[1] + 1)
SelectPrevious(sel) ==
    Some(IF sel = None THEN USIZE_MAX ELSE IF sel[1] = 0 THEN 0 ELSE sel[1] - 1)

\* a variant whose catch-all arm ends the loop
HandleEventAnyKeyQuits(a, ev) ==
    CASE ev = "q" -> [a EXCEPT !.is_running = FALSE]
      [] ev = "Down" -> [a EXCEPT !.selected = SelectNext(@)]
      [] ev = "Up" -> [a EXCEPT !.selected = SelectPrevious(@)]
      [] ev = "OtherKey" -> [a EXCEPT !.is_running = FALSE]
      [] OTHER -> a

\* the match on the event read
HandleEvent(a, ev) ==
    CASE ev = "q" -> [a EXCEPT !.is_running = FALSE]
      [] ev = "Down" -> [a EXCEPT !.selected = SelectNext(@)]
      [] ev = "Up" -> [a EXCEPT !.selected = SelectPrevious(@)]
      [] OTHER -> a

\* crossterm::event::read()? and the match on it
ReadEvent ==
    /\ pc = "tui_event"
    /\ \/ /\ Fail("io: event read failed")
          /\ UNCHANGED <<app, event>>
       \/ \E ev \in Events :
            /\ event' = Some(ev)
            /\ app' = Some(HandleEvent(app[1], ev))
            /\ pc' = "tui_loop"
            /\ UNCHANGED exit
    /\ UNCHANGED <<leakVars, traceVars, terminal>>

\* the loop ends: ratatui::restore(); Ok(()) and main's Ok(())
Restore ==
    /\ pc = "tui_loop"
    /\ ~app[1].is_running
    /\ terminal' = "cooked"
    /\ exit' = Ok
    /\ pc' = "done"
    /\ UNCHANGED <<leakVars, traceVars, app, event>>

Next ==
    \/ GetId
    \/ FanOut
    \/ GetVerdict
    \/ Resolve
    \/ Build
    \/ Run
    \/ TakeSnapshot
    \/ ReconcileHop
    \/ TraceReturn
    \/ TuiInit
    \/ Draw
    \/ ReadEvent
    \/ Restore

Spec == Init /\ [][Next]_vars

(* ================================================================ claims *)
LeakPcs == {"dns_id", "dns_fanout"}
TracePcs == {"tr_resolve", "tr_build", "tr_run", "tr_snapshot", "tr_reconcile"}
TuiPcs == {"tui_init", "tui_loop", "tui_event"}

\* Hops a TTL with the given addresses must contribute: max(k, 1)
GroupSize(h) == IF Len(h.addrs) >= 1 THEN Len(h.addrs) ELSE 1

\* Hops that the TTLs before the j-th one contribute together
RECURSIVE GroupStart(_, _)
GroupStart(snapHops, j) ==
    IF j <= 1 THEN 0
    ELSE GroupStart(snapHops, j - 1) + GroupSize(snapHops[j - 1])

\* out is, group by group, the reconciliation of the TTLs snapHops
GroupedByTtl(snapHops, out) ==
    /\ Len(out) = GroupStart(snapHops, Len(snapHops) + 1)
    /\ \A j \in 1..Len(snapHops) :
        LET h == snapHops[j]
            base == GroupStart(snapHops, j)
        IN \A p \in 1..GroupSize(h) :
            LET row == out[base + p]
            IN /\ (row.ttl # None) <=> (p = 1)
               /\ p = 1 => row.ttl = Some(ToString(h.ttl))
               /\ Len(h.addrs) = 0 => row.host = None /\ row.address = None
               /\ Len(h.addrs) >= 1 =>
                    /\ row.address = Some(AddrToString(h.addrs[p]))
                    /\ row.host # None

\* C1: the Hops traceroute emits are the concatenation, in the snapshot's TTL
\* order, of one group per TTL: a TTL with k responders gives max(k, 1) Hops,
\* only the group's first Hop carries the ttl, a silent TTL gives one Hop with
\* host and address empty, and no TTL is dropped. It holds of the TTLs handled
\* so far while the loop runs and of the whole snapshot in the value handed
\* back to main.
C1_HopGroups ==
    /\ pc = "tr_reconcile" =>
         GroupedByTtl(SubSeq(snapshot[1].hops, 1, hop_idx - 1), hops)
    /\ pc = "tui_init" =>
         /\ trace_data # None
         /\ GroupedByTtl(snapshot[1].hops, trace_data[1].hops)

\* a returned trace of a silent TTL followed by a TTL with two responders
C1_Witness ==
    /\ pc = "tui_init"
    /\ trace_data # None
    /\ Len(snapshot[1].hops) = 2
    /\ Len(snapshot[1].hops[1].addrs) = 0
    /\ Len(snapshot[1].hops[2].addrs) = 2
    /\ Len(trace_data[1].hops) = 3

\* C2: when the resolver answers with no address, traceroute returns the
\* unknown-host error and no tracer is ever built, run or asked for a snapshot.
C2_EmptyResolutionNoTracer ==
    (addrs # None /\ Len(addrs[1]) = 0) =>
        /\ pc = "done"
        /\ exit = Err("traceroute: unknown host discord.com")
        /\ addr = None
        /\ tracer = None
        /\ tracer_runs = 0
        /\ snapshot = None
        /\ trace_data = None

C2_Witness == addrs = Some(<<>>) /\ pc = "done" /\ dns_data # None

\* C3: when the final snapshot carries an error string e, traceroute returns
\* the error with detail e and no TraceData: no Hop is reconciled and no
\* reverse lookup is made.
C3_EngineErrorNoResult ==
    (snapshot # None /\ snapshot[1].error # None) =>
        /\ pc = "done"
        /\ exit = Err("error: " \o snapshot[1].error[1])
        /\ hops = <<>>
        /\ rlookups = 0
        /\ trace_data = None
        /\ app = None

\* a snapshot that has both the error and hops with responders to reconcile
C3_Witness ==
    /\ snapshot # None
    /\ snapshot[1].error = Some("socket permission denied")
    /\ Len(snapshot[1].hops) = 2
    /\ Len(snapshot[1].hops[2].addrs) = 2
    /\ pc = "done"

\* the verdict URLs of the possible sessions: https://bash.ws/dnsleak/test/{id}?json
VerdictUrls == { "https://bash.ws/dnsleak/test/" \o sid \o "?json" : sid \in Ids }
IsVerdictUrl(u) == u \in VerdictUrls

\* https://{n}.{id}.bash.ws for n = 0..9 and each possible session id
ExpectedLookupUrl ==
    [n \in 0..9, sid \in Ids |->
        "https://" \o ToString(n) \o "." \o sid \o ".bash.ws"]

\* C4: the session-id request comes first and only once, the verdict request
\* comes after every fan-out lookup and only once (nothing follows it); a
\* failed session acquisition ends the probe with an error after that single
\* request; a failed verdict request or decoding ends it with an error and no
\* records.
C4_PhaseOrder ==
    /\ Len(requests) >= 1 => requests[1] = "https://bash.ws/id"
    /\ \A k \in 2..Len(requests) : requests[k] # "https://bash.ws/id"
    /\ \A k \in 1..Len(requests) :
         IsVerdictUrl(requests[k]) => k = Len(requests) /\ k > 10
    /\ id = None => Len(requests) <= 1
    /\ (id = None /\ Len(requests) = 1) =>
         pc = "done" /\ exit.status = "err" /\ dns_data = None
    /\ (Len(requests) >= 1 /\ IsVerdictUrl(requests[Len(requests)])
          /\ verdict = None) =>
         pc = "done" /\ exit.status = "err" /\ dns_data = None /\ addrs = None

\* the verdict request was made after the ten lookups and failed
C4_Witness ==
    /\ Len(requests) = 12
    /\ IsVerdictUrl(requests[12])
    /\ verdict = None
    /\ pc = "done"

\* C5: after a successful session acquisition exactly 10 fan-out lookups are
\* issued, the n-th to https://{n}.{id}.bash.ws for n = 0..9; whether or not
\* attempts fail, the probe never ends inside the fan-out, the verdict request
\* follows, and what the probe returns is decided by the verdict alone.
C5_FanOutBestEffort ==
    id # None =>
        /\ \A k \in 2..Len(requests) :
             k <= 11 => requests[k] = ExpectedLookupUrl[k - 2, id[1]]
        /\ pc = "dns_fanout" => Len(requests) = 1 + i
        /\ pc # "dns_fanout" =>
             /\ Len(requests) = 12
             /\ IsVerdictUrl(requests[12])
             /\ (dns_data # None) <=> (verdict # None)
             /\ dns_data = None => exit.status = "err"

\* some fan-out attempt failed and the probe still returned the verdict's rows
C5_Witness ==
    /\ fanout_errs
    /\ Len(requests) = 12
    /\ dns_data # None
    /\ Len(dns_data[1]) = 2

\* C6: the enriched rows are the service's rows, as many and in the same
\* order, with ip, country, asn and type unchanged and the country display
\* equal to the service's country_name, one space and the glyph of the row's
\* country code; the glyph is "?" exactly when the code is empty or unmapped.
\* Rows of every type are treated alike.
C6_EnrichmentPerRow ==
    verdict # None =>
        /\ dns_data # None
        /\ Len(dns_data[1]) = Len(verdict[1])
        /\ \A n \in 1..Len(verdict[1]) :
            LET raw == verdict[1][n]
                out == dns_data[1][n]
                unmapped == raw.country = "" \/ flag(raw.country) = None
            IN /\ DOMAIN out = DOMAIN raw
               /\ out.ip = raw.ip
               /\ out.country = raw.country
               /\ out.asn = raw.asn
               /\ out.type_field = raw.type_field
               /\ unmapped => out.country_name = raw.country_name \o " ?"
               /\ ~unmapped =>
                    /\ out.country_name =
                         raw.country_name \o " " \o flag(raw.country)[1]
                    /\ flag(raw.country)[1] # "?"

\* a conclusion row with empty country followed by a US dns row
C6_Witness ==
    /\ dns_data # None
    /\ Len(dns_data[1]) = 2
    /\ dns_data[1][1].type_field = "conclusion"
    /\ dns_data[1][1].country_name = " ?"
    /\ dns_data[1][2].country_name = "United States [flag-US]"

\* the configuration every tracer has, its target apart
AnyTargetConfig ==
    [ target_addr |-> <<0, 0, 0, 0>>, interface |-> None, source_addr |-> None,
      protocol |-> "Udp", port_direction |-> [kind |-> "FixedSrc", port |-> 33434],
      packet_size |-> 52, first_ttl |-> 1, max_ttl |-> 64, tos |-> 0,
      max_flows |-> 1, max_rounds |-> Some(3), min_round_duration_ms |-> 100,
      max_round_duration_ms |-> 100 ]

\* C7: with more than one resolved address the first one in the resolver's
\* order is the tracer's target, the warning is printed (and only then), and
\* the run goes on: it never ends with the unknown-host error and the tracer
\* is configured as for a single address.
C7_FirstAddressSelected ==
    addrs # None =>
        /\ Len(addrs[1]) > 1 =>
             /\ addr = Some(addrs[1][1])
             /\ warned
             /\ exit.msg # "traceroute: unknown host discord.com"
        /\ Len(addrs[1]) = 1 => addr = Some(addrs[1][1]) /\ ~warned
        /\ tracer # None =>
             /\ tracer[1].target_addr = addrs[1][1]
             /\ [tracer[1] EXCEPT !.target_addr = <<0, 0, 0, 0>>] = AnyTargetConfig

\* two addresses were resolved and the trace completed
C7_Witness ==
    /\ addrs # None
    /\ Len(addrs[1]) = 2
    /\ warned
    /\ trace_data # None
    /\ Len(trace_data[1].hops) >= 1

\* C8 as stated: every tracer is built with UDP transport, destination-port-
\* fixed addressing at port 33434, packet size 52, first TTL 1, max TTL 64,
\* 3 rounds, one flow, round durations of 100 ms and type-of-service 0.
C8_AsStated ==
    tracer # None =>
        /\ tracer[1].protocol = "Udp"
        /\ tracer[1].port_direction = [kind |-> "FixedDest", port |-> 33434]
        /\ tracer[1].packet_size = 52
        /\ tracer[1].first_ttl = 1
        /\ tracer[1].max_ttl = 64
        /\ tracer[1].max_rounds = Some(3)
        /\ tracer[1].max_flows = 1
        /\ tracer[1].min_round_duration_ms = 100
        /\ tracer[1].max_round_duration_ms = 100
        /\ tracer[1].tos = 0

\* C8, amended: every tracer is built with UDP transport, source-port-fixed
\* addressing at port 33434 (the destination port is left to the engine),
\* packet size 52, first TTL 1, max TTL 64, 3 rounds, one flow, round
\* durations of 100 ms and type-of-service 0, whatever the target.
C8_FixedParameters ==
    tracer # None =>
        /\ tracer[1].protocol = "Udp"
        /\ tracer[1].port_direction = [kind |-> "FixedSrc", port |-> 33434]
        /\ tracer[1].packet_size = 52
        /\ tracer[1].first_ttl = 1
        /\ tracer[1].max_ttl = 64
        /\ tracer[1].max_rounds = Some(3)
        /\ tracer[1].max_flows = 1
        /\ tracer[1].min_round_duration_ms = 100
        /\ tracer[1].max_round_duration_ms = 100
        /\ tracer[1].tos = 0
        /\ tracer[1].interface = None
        /\ tracer[1].source_addr = None

\* a tracer was built for the second of the targets and run
C8_Witness ==
    /\ tracer # None
    /\ tracer[1].target_addr = <<162, 159, 135, 232>>
    /\ tracer_runs = 1

\* C9: the traceroute starts only after the leak probe returned its rows, and
\* run_tui (with the terminal's initialisation) only after the traceroute
\* returned its TraceData too; when either fails the later stages are never
\* started and the process ends with the error.
C9_SequentialStartup ==
    /\ pc \in TracePcs => dns_data # None /\ Len(requests) = 12
    /\ pc \in TuiPcs => dns_data # None /\ trace_data # None
    /\ dns_data = None =>
         /\ addrs = None /\ tracer = None /\ tracer_runs = 0
         /\ snapshot = None /\ trace_data = None
         /\ app = None /\ terminal = "cooked"
         /\ pc = "done" => exit.status = "err"
    /\ trace_data = None =>
         /\ app = None /\ terminal = "cooked"
         /\ pc = "done" => exit.status = "err"

\* the leak probe succeeded, the tracer's run failed, the process has ended
C9_Witness ==
    /\ dns_data # None
    /\ tracer_runs = 1
    /\ trace_data = None
    /\ pc = "done"
    /\ exit = Err("tracer: run failed")

\* C10: whenever run_tui has returned, the terminal it took over is back in
\* the state it was found in, also when a draw or an event read failed.
C10_RestoredOnEveryExit ==
    (pc = "done" /\ app # None) => terminal = "cooked"

\* what one step of the presentation loop may do to the App, given the event
\* it has just read
EventFrame ==
    LET a == app[1]
        b == app'[1]
        ev == event'[1]
    IN /\ b.data = a.data
       /\ ev \in {"Down", "Up"} => b.is_running = a.is_running
       /\ ev = "Down" => b.selected # a.selected
       /\ ev = "q" => b.selected = a.selected /\ ~b.is_running
       /\ ev \notin {"Down", "Up", "q"} => b = a
       /\ terminal' = terminal
       /\ exit' = exit

\* C11: whatever events the presentation loop handles, the leak records and
\* the TraceData stay the values main handed over: Down and Up change only
\* the selection of the leak table, 'q' changes only the running flag (and the
\* loop then ends with Ok), any other key and any non-key event change
\* nothing.
C11_EventsChangeOnlyCursor ==
    [][ /\ pc \in {"tui_loop", "tui_event"} =>
            /\ dns_data' = dns_data
            /\ trace_data' = trace_data
            /\ app'[1].data = dns_data[1]
        /\ (pc = "tui_event" /\ pc' = "tui_loop") => EventFrame
        /\ (pc = "tui_loop" /\ event = Some("q")) =>
            pc' = "done" /\ exit' = Ok
      ]_vars

\* Down was read with the first of two leak rows selected
C11_Witness ==
    /\ pc = "tui_loop"
    /\ event = Some("Down")
    /\ Len(DnsRows(app[1].data)) = 2
    /\ app[1].selected = Some(1)
    /\ app[1].data = dns_data[1]
    /\ trace_data # None

\* the addresses behind the Hops of the TTLs snapHops, one entry per Hop (a
\* silent TTL stands for one Hop without an address)
RECURSIVE HopAddresses(_)
HopAddresses(snapHops) ==
    IF snapHops = <<>> THEN <<>>
    ELSE (IF Len(snapHops[1].addrs) = 0 THEN << None >>
          ELSE [n \in 1..Len(snapHops[1].addrs) |-> Some(snapHops[1].addrs[n])])
         \o HopAddresses(Tail(snapHops))

\* the Hops of the TTLs snapHops when every reverse lookup finds a name
RECURSIVE AllResolved(_)
AllResolved(snapHops) ==
    IF snapHops = <<>> THEN <<>>
    ELSE HopRows(snapHops[1], [a \in Range(snapHops[1].addrs) |-> "Resolved"])
         \o AllResolved(Tail(snapHops))

\* out differs from the run without misses in the host of some Hops only,
\* and there it holds the resolver's placeholder, the address as text
SameButHosts(snapHops, out) ==
    LET ref == AllResolved(snapHops)
        as == HopAddresses(snapHops)
    IN /\ Len(out) = Len(ref)
       /\ \A n \in 1..Len(ref) :
            /\ out[n].ttl = ref[n].ttl
            /\ out[n].address = ref[n].address
            /\ out[n].samples = ref[n].samples
            /\ \/ out[n].host = ref[n].host
               \/ as[n] # None /\ out[n].host = Some(AddrToString(as[n][1]))

====
